---- MODULE Spec2Model ----
(***************************************************************************)
(* Model of src/pipeline.py: SemanticSegmentationTrainer (early stopping,  *)
(* the epoch loop of train(), checkpoint writes, experiment logging) and   *)
(* SemanticSegmentationPipeline.run(), which as the source stands raises   *)
(* before it builds a trainer: trainers are built and driven by a caller.  *)
(*                                                                         *)
(* Losses are Python floats.  Only their order matters to the code, so a   *)
(* loss is a number in 0..MaxLoss or Inf, float('inf'), the greatest       *)
(* element.  NaN is left out: the order "<" is not total on it.            *)
(* The tensor library, the dataset library and the tracking service are    *)
(* opaque: a training and validation pass yields some pair of losses, or   *)
(* raises ZeroDivisionError when the loader it averages over is empty.     *)
(* A trainer's methods are public: early_stopping, log_to_wandb,           *)
(* save_checkpoint and train() are called in any order and any number of   *)
(* times.  MaxCalls bounds the calls of a behaviour: the early_stopping    *)
(* calls, those made by train() included, and the log_to_wandb and         *)
(* save_checkpoint calls a caller makes itself.                            *)
(***************************************************************************)
EXTENDS Integers, Sequences, FiniteSets

(* ---------------------------------------------------------------- bounds *)
MaxEpochs == 2
MaxPatience == 2
MaxNegPatience == 1
MaxLoss == 1
MaxCalls == 3

(* ------------------------------------------------------- program constants *)
DefaultNumEpochs == 10
DefaultPatience == 5
DefaultLogDir == "logs"

(* float('inf'), the initial best_val_loss: above every finite loss *)
Inf == MaxLoss + 1
Losses == 0..Inf
TrainLosses == {0, 1}
LogDirs == {"logs", "out"}

(* What a caller passes when it calls log_to_wandb or save_checkpoint      *)
(* itself: an epoch every train() writes too, or one beyond the epochs any *)
(* explored train() runs, with a training and a validation loss            *)
DirectEpochs == {0, MaxEpochs}
DirectLosses == {<<0, 1>>}

(* A Python value of one of the two types the trainer's arguments take *)
PyInt(n) == [type |-> "int", int |-> n, str |-> ""]
PyStr(s) == [type |-> "str", int |-> 0, str |-> s]

VARIABLES
    pc,                     \* position of the program
    pipeline,               \* SemanticSegmentationPipeline fields
    wandb_config,           \* the configuration dictionaries given to wandb
    num_epochs,             \* trainer.num_epochs
    patience,               \* trainer.patience (a Python value)
    log_dir,                \* trainer.log_dir
    made_dirs,              \* directories the trainer's constructor created
    early_stopping_counter, \* trainer.early_stopping_counter
    best_val_loss,          \* trainer.best_val_loss
    built_by,               \* who constructed the trainer
    it,                     \* number of values range(num_epochs) has yielded
    epoch,                  \* train(): loop variable
    avg_loss,               \* train(): this epoch's training loss
    avg_val_loss,           \* train(): this epoch's validation loss
    wandb_log,              \* the wandb.log calls so far
    checkpoints,            \* the torch.save calls so far
    calls,                  \* the arguments of the early_stopping calls so far
    returned,               \* what the last early_stopping call returned
    run,                    \* what had been called, logged and saved, and the
                            \* counter, when the current train() was called
    exception,              \* the exception the last call raised, if any
    direct                  \* number of log_to_wandb and save_checkpoint calls
                            \* made by a caller, outside train()

vars == <<pc, pipeline, wandb_config, num_epochs, patience,
          log_dir, made_dirs, early_stopping_counter, best_val_loss, built_by,
          it, epoch, avg_loss, avg_val_loss, wandb_log, checkpoints, calls,
          returned, run, exception, direct>>

pipeVars == <<pipeline, wandb_config>>
trainerVars == <<num_epochs, patience, log_dir, made_dirs, built_by>>
esVars == <<early_stopping_counter, best_val_loss, calls, returned>>
loopVars == <<it, epoch, avg_loss, avg_val_loss>>
outVars == <<wandb_log, checkpoints>>
callVars == <<run, exception, direct>>

(* ------------------------------------------------------------ operators *)

(* a == b written for a >= b *)
GreaterEqual_Equal(a, b) ==
    IF a.type = "int" /\ b.type = "int"
    THEN (IF a.int = b.int THEN "True" ELSE "False")
    ELSE "TypeError"

(* a > b written for a >= b *)
GreaterEqual_Greater(a, b) ==
    IF a.type = "int" /\ b.type = "int"
    THEN (IF a.int > b.int THEN "True" ELSE "False")
    ELSE "TypeError"

(* Python's a >= b on the two value types: int against str raises *)
GreaterEqual(a, b) ==
    IF a.type = "int" /\ b.type = "int"
    THEN (IF a.int >= b.int THEN "True" ELSE "False")
    ELSE "TypeError"

(* val_loss <= best written for val_loss < best *)
Improved_OrEqual(val_loss, best) == val_loss <= best

(* early_stopping, the branch test *)
Improved(val_loss, best) == val_loss < best

(* the assignment to best_val_loss moved out of the if *)
NewBest_Always(val_loss, best) == val_loss

(* early_stopping, the new best_val_loss *)
NewBest(val_loss, best) == IF Improved(val_loss, best) THEN val_loss ELSE best

(* the reset of the counter left out *)
NewCounter_NoReset(val_loss, best, counter) == counter + 1

(* early_stopping, the new early_stopping_counter *)
NewCounter(val_loss, best, counter) ==
    IF Improved(val_loss, best) THEN 0 ELSE counter + 1

(* early_stopping, the returned value *)
ShouldStop(counter, pat) == GreaterEqual(PyInt(counter), pat)

(* os.path.join(log_dir, f'checkpoint_epoch_{epoch}.pt') *)
CheckpointPath(dir, e) == <<dir, "checkpoint_epoch_", e, ".pt">>

(* The positional binding of the trainer's last three parameters: the      *)
(* arguments given fill num_epochs, patience, log_dir from the left and    *)
(* the rest take their defaults.                                           *)
TrainerDefaults ==
    <<PyInt(DefaultNumEpochs), PyInt(DefaultPatience), PyStr(DefaultLogDir)>>
BindTrainerArgs(args) ==
    [i \in 1..3 |-> IF i <= Len(args) THEN args[i] ELSE TrainerDefaults[i]]

NoPipeline == [log_dir |-> "", num_epochs |-> 0]

(* ----------------------------------------------------------------- Init *)
Init ==
    /\ pc = "main"
    /\ pipeline = NoPipeline
    /\ wandb_config = {}
    /\ num_epochs = 0
    /\ patience = PyInt(0)
    /\ log_dir = ""
    /\ made_dirs = {}
    /\ early_stopping_counter = 0
    /\ best_val_loss = Inf
    /\ built_by = "nobody"
    /\ it = 0
    /\ epoch = 0
    /\ avg_loss = 0
    /\ avg_val_loss = 0
    /\ wandb_log = <<>>
    /\ checkpoints = <<>>
    /\ calls = <<>>
    /\ returned = "None"
    /\ run = [calls |-> 0, log |-> 0, ckpt |-> 0, counter |-> 0]
    /\ exception = "None"
    /\ direct = 0

(* -------------------------------------------------------------- actions *)

(* best_val_loss initialised to 0 instead of infinity *)
TrainerInit_ZeroBest(b, who) ==
    /\ num_epochs' = b[1].int
    /\ patience' = b[2]
    /\ log_dir' = b[3].str
    /\ made_dirs' = made_dirs \cup {b[3].str}
    /\ early_stopping_counter' = 0
    /\ best_val_loss' = 0
    /\ built_by' = who

(* SemanticSegmentationTrainer.__init__ with the bound arguments b *)
TrainerInit(b, who) ==
    /\ num_epochs' = b[1].int
    /\ patience' = b[2]
    /\ log_dir' = b[3].str
    /\ made_dirs' = made_dirs \cup {b[3].str}
    /\ early_stopping_counter' = 0
    /\ best_val_loss' = Inf
    /\ built_by' = who

(* A caller constructs a trainer itself, with an integer patience *)
NewTrainer ==
    /\ pc = "main"
    /\ \E ne \in 0..MaxEpochs, p \in (0 - MaxNegPatience)..MaxPatience, d \in LogDirs :
          TrainerInit(BindTrainerArgs(<<PyInt(ne), PyInt(p), PyStr(d)>>), "caller")
    /\ pc' = "idle"
    /\ UNCHANGED <<pipeVars, loopVars, outVars, calls, returned, callVars>>

(* SemanticSegmentationPipeline.__init__ *)
NewPipeline ==
    /\ pc = "main"
    /\ \E ne \in 0..MaxEpochs, d \in LogDirs :
          pipeline' = [log_dir |-> d, num_epochs |-> ne]
    /\ pc' = "pipeline"
    /\ UNCHANGED <<wandb_config, trainerVars, esVars, loopVars, outVars, callVars>>

(* run(): wandb.init and wandb.config.update *)
PipelineConfig ==
    /\ pc = "pipeline"
    /\ wandb_config' = wandb_config \cup
          {[log_dir |-> pipeline.log_dir, num_epochs |-> pipeline.num_epochs]}
    /\ pc' = "configured"
    /\ UNCHANGED <<pipeline, trainerVars, esVars, loopVars, outVars, callVars>>

(* run(): transforms.Resize((224, 224, 3)) is given a size of three       *)
(* values; the transform library takes one or two and raises, and run()   *)
(* ends there                                                             *)
PipelineResizeFails ==
    /\ pc = "configured"
    /\ pc' = "error"
    /\ exception' = "ValueError"
    /\ UNCHANGED <<pipeVars, trainerVars, esVars, loopVars, outVars, run, direct>>

(* run(): where the transform library lets the size through, the datasets *)
(* are built and UNet() raises: its __init__ takes no self.  Either way   *)
(* run() ends before it constructs a trainer or calls train().            *)
PipelineModelFails ==
    /\ pc = "configured"
    /\ pc' = "error"
    /\ exception' = "TypeError"
    /\ UNCHANGED <<pipeVars, trainerVars, esVars, loopVars, outVars, run, direct>>

(* early_stopping(val_loss): the state it leaves and the value it returns *)
EarlyStopping(val_loss) ==
    /\ best_val_loss' = NewBest(val_loss, best_val_loss)
    /\ early_stopping_counter' =
          NewCounter(val_loss, best_val_loss, early_stopping_counter)
    /\ returned' = ShouldStop(early_stopping_counter', patience)
    /\ calls' = Append(calls, val_loss)

(* log_to_wandb(epoch, train_loss, val_loss): the dictionary it logs *)
LogRecord(e, train_loss, val_loss) ==
    [epoch |-> e, train_loss |-> train_loss, val_loss |-> val_loss]

(* save_checkpoint(epoch, ..., train_loss, val_loss): the file it writes  *)
(* and the epoch and losses of the dictionary it saves there              *)
CheckpointRecord(dir, e, train_loss, val_loss) ==
    [path |-> CheckpointPath(dir, e), epoch |-> e,
     train_loss |-> train_loss, val_loss |-> val_loss]

(* A caller is between two calls on the trainer it constructed; an        *)
(* exception train() raised has been caught                               *)
BetweenCalls ==
    /\ pc \in {"idle", "called", "done", "error"}
    /\ built_by = "caller"

(* A caller calls early_stopping on its trainer, outside train() *)
EarlyStoppingCall ==
    /\ BetweenCalls
    /\ Len(calls) + direct < MaxCalls
    /\ \E v \in Losses : EarlyStopping(v)
    /\ pc' = "called"
    /\ exception' = "None"
    /\ UNCHANGED <<pipeVars, trainerVars, loopVars, outVars, run, direct>>

(* A caller calls log_to_wandb on its trainer, outside train(), with an   *)
(* epoch and losses of its choosing                                       *)
LogToWandbCall ==
    /\ BetweenCalls
    /\ Len(calls) + direct < MaxCalls
    /\ \E e \in DirectEpochs, l \in DirectLosses :
          wandb_log' = Append(wandb_log, LogRecord(e, l[1], l[2]))
    /\ direct' = direct + 1
    /\ pc' = "called"
    /\ exception' = "None"
    /\ UNCHANGED <<pipeVars, trainerVars, esVars, loopVars, checkpoints, run>>

(* A caller calls save_checkpoint on its trainer, outside train(), with   *)
(* an epoch and losses of its choosing                                    *)
SaveCheckpointCall ==
    /\ BetweenCalls
    /\ Len(calls) + direct < MaxCalls
    /\ \E e \in DirectEpochs, l \in DirectLosses :
          checkpoints' = Append(checkpoints,
              CheckpointRecord(log_dir, e, l[1], l[2]))
    /\ direct' = direct + 1
    /\ pc' = "called"
    /\ exception' = "None"
    /\ UNCHANGED <<pipeVars, trainerVars, esVars, loopVars, wandb_log, run>>

(* train() is called by a caller on its trainer, in whatever state        *)
(* earlier calls have left it.  The trainer's fields are kept; the loop   *)
(* starts again at epoch 0.  A call is explored while its epochs fit in   *)
(* the bound on calls.                                                    *)
TrainCall ==
    /\ BetweenCalls
    /\ Len(calls) + direct + num_epochs <= MaxCalls
    /\ pc' = "loop"
    /\ it' = 0
    /\ run' = [calls |-> Len(calls), log |-> Len(wandb_log),
               ckpt |-> Len(checkpoints), counter |-> early_stopping_counter]
    /\ exception' = "None"
    /\ UNCHANGED <<pipeVars, trainerVars, esVars, epoch, avg_loss,
                   avg_val_loss, outVars, direct>>

(* the loop runs one epoch too many *)
LoopHead_OffByOne ==
    /\ pc = "loop"
    /\ \/ /\ it <= num_epochs
          /\ epoch' = it
          /\ it' = it + 1
          /\ pc' = "body"
       \/ /\ it > num_epochs
          /\ pc' = "done"
          /\ UNCHANGED <<epoch, it>>
    /\ UNCHANGED <<pipeVars, trainerVars, esVars, avg_loss, avg_val_loss,
                   outVars, callVars>>

(* for epoch in range(self.num_epochs): the next epoch, or the end *)
LoopHead ==
    /\ pc = "loop"
    /\ \/ /\ it < num_epochs
          /\ epoch' = it
          /\ it' = it + 1
          /\ pc' = "body"
       \/ /\ it >= num_epochs
          /\ pc' = "done"
          /\ UNCHANGED <<epoch, it>>
    /\ UNCHANGED <<pipeVars, trainerVars, esVars, avg_loss, avg_val_loss,
                   outVars, callVars>>

(* The training pass and the validation pass of one epoch.  Each ends by  *)
(* dividing the summed loss by the number of batches of its loader: both  *)
(* passes finish, or the training loader is empty and the first division  *)
(* raises, or the validation loader is empty and the second one raises    *)
(* after the training loss has been computed.                             *)
TrainAndValidate ==
    /\ pc = "body"
    /\ \/ /\ avg_loss' \in TrainLosses
          /\ avg_val_loss' \in Losses
          /\ pc' = "validated"
          /\ UNCHANGED exception
       \/ /\ pc' = "error"
          /\ exception' = "ZeroDivisionError"
          /\ UNCHANGED <<avg_loss, avg_val_loss>>
       \/ /\ avg_loss' \in TrainLosses
          /\ pc' = "error"
          /\ exception' = "ZeroDivisionError"
          /\ UNCHANGED avg_val_loss
    /\ UNCHANGED <<pipeVars, trainerVars, esVars, it, epoch, outVars, run, direct>>

(* the epoch logged is the next one, not the one that finished *)
LogToWandb_NextEpoch ==
    /\ pc = "validated"
    /\ wandb_log' = Append(wandb_log, LogRecord(it, avg_loss, avg_val_loss))
    /\ pc' = "logged"
    /\ UNCHANGED <<pipeVars, trainerVars, esVars, loopVars, checkpoints, callVars>>

(* self.log_to_wandb(epoch, avg_loss, avg_val_loss) *)
LogToWandb ==
    /\ pc = "validated"
    /\ wandb_log' = Append(wandb_log, LogRecord(epoch, avg_loss, avg_val_loss))
    /\ pc' = "logged"
    /\ UNCHANGED <<pipeVars, trainerVars, esVars, loopVars, checkpoints, callVars>>

(* the break left out: the stopping epoch is checkpointed too *)
EarlyStoppingCheck_NoBreak ==
    /\ pc = "logged"
    /\ EarlyStopping(avg_val_loss)
    /\ pc' = CASE returned' = "True" -> "save"
               [] returned' = "False" -> "save"
               [] OTHER -> "error"
    /\ exception' = IF returned' = "TypeError" THEN "TypeError" ELSE exception
    /\ UNCHANGED <<pipeVars, trainerVars, it, epoch, avg_loss, avg_val_loss,
                   outVars, run, direct>>

(* if self.early_stopping(avg_val_loss): break; the comparison with a     *)
(* patience that is not a number raises                                   *)
EarlyStoppingCheck ==
    /\ pc = "logged"
    /\ EarlyStopping(avg_val_loss)
    /\ pc' = CASE returned' = "True" -> "done"
               [] returned' = "False" -> "save"
               [] OTHER -> "error"
    /\ exception' = IF returned' = "TypeError" THEN "TypeError" ELSE exception
    /\ UNCHANGED <<pipeVars, trainerVars, it, epoch, avg_loss, avg_val_loss,
                   outVars, run, direct>>

(* self.save_checkpoint(epoch, ..., avg_loss, avg_val_loss) *)
SaveCheckpoint ==
    /\ pc = "save"
    /\ checkpoints' = Append(checkpoints,
          CheckpointRecord(log_dir, epoch, avg_loss, avg_val_loss))
    /\ pc' = "loop"
    /\ UNCHANGED <<pipeVars, trainerVars, esVars, loopVars, wandb_log, callVars>>

Next ==
    \/ NewTrainer
    \/ NewPipeline
    \/ PipelineConfig
    \/ PipelineResizeFails
    \/ PipelineModelFails
    \/ EarlyStoppingCall
    \/ LogToWandbCall
    \/ SaveCheckpointCall
    \/ TrainCall
    \/ LoopHead
    \/ TrainAndValidate
    \/ LogToWandb
    \/ EarlyStoppingCheck
    \/ SaveCheckpoint

Spec == Init /\ [][Next]_vars

(* the steps of train() *)
TrainNext ==
    \/ LoopHead
    \/ TrainAndValidate
    \/ LogToWandb
    \/ EarlyStoppingCheck
    \/ SaveCheckpoint

(* ------------------------------------------------- notions of the claims *)

IntPatience == patience.type = "int"
InTrain == pc \in {"loop", "body", "validated", "logged", "save", "done"}
TrainerBuilt == built_by # "nobody"

(* train() has ended by raising ZeroDivisionError in an epoch's passes *)
Raised == pc = "error" /\ exception = "ZeroDivisionError"

(* the current train() was called on a trainer on which early_stopping    *)
(* had never been called                                                  *)
FreshRun == run.calls = 0

(* the validation losses, log calls and checkpoint writes of the current  *)
(* train()                                                                *)
RunLosses == SubSeq(calls, run.calls + 1, Len(calls))
RunLog == SubSeq(wandb_log, run.log + 1, Len(wandb_log))
RunCheckpoints == SubSeq(checkpoints, run.ckpt + 1, Len(checkpoints))
RunCheckpointEpochs == {RunCheckpoints[i].epoch : i \in 1..Len(RunCheckpoints)}

(* the least element of a set of losses, infinity for the empty set *)
MinOf(S) == IF S = {} THEN Inf ELSE CHOOSE m \in S : \A x \in S : m <= x
MaxOf(S) == IF S = {} THEN 0 ELSE CHOOSE m \in S : \A x \in S : x <= m

(* the lowest of the first n losses of s *)
PrefixMin(s, n) == MinOf({s[i] : i \in 1..n})

(* the i-th loss of s is strictly lower than every loss before it *)
StrictlyLower(s, i) == s[i] < PrefixMin(s, i - 1)

(* the last position of s that strictly lowered the minimum, 0 if none *)
LastLowering(s) == MaxOf({i \in 1..Len(s) : StrictlyLower(s, i)})

(* epoch e (from 0) of a run with losses s: each of the p most recent     *)
(* epochs e-p+1..e exists and did not strictly lower the minimum          *)
Window(s, e, p) ==
    \A j \in (e - p + 1)..e : j >= 0 /\ ~StrictlyLower(s, j + 1)
FirstWindow(s, e, p) ==
    /\ Window(s, e, p)
    /\ \A d \in 0..(e - 1) : ~Window(s, d, p)

(* train() stopped early: it left the loop through break *)
StoppedEarly == pc = "done" /\ Len(RunLosses) >= 1 /\ returned = "True"

(* the epochs of the current train() whose decision has been taken *)
Decided == 0..(Len(RunLosses) - 1)

(* ---------------------------------------------------------------- claims *)

(* C1: every early_stopping call sets the counter to 0 when the loss is   *)
(* strictly lower than best_val_loss before the call, and otherwise to    *)
(* its value before the call plus 1.                                      *)
C1_CounterStep ==
    [][Len(calls') = Len(calls) + 1 =>
        LET v == calls'[Len(calls')] IN
        IF v < best_val_loss
        THEN early_stopping_counter' = 0
        ELSE early_stopping_counter' = early_stopping_counter + 1]_vars

C1_Witness ==
    /\ pc = "called"
    /\ Len(calls) = 3
    /\ calls[2] = calls[1]
    /\ calls[3] < calls[1]
    /\ early_stopping_counter = 0
    /\ returned = "False"

(* C2 as stated: the loop stops at the end of an epoch exactly when the   *)
(* counter equals patience after that epoch's update, for any integer     *)
(* patience.                                                              *)
C2_StopsIffEqual ==
    [][(pc = "logged" /\ IntPatience) =>
        ((pc' = "done") <=> (early_stopping_counter' = patience.int))]_vars

(* C2 amended: the loop stops at the end of an epoch exactly when the     *)
(* counter is at least patience after that epoch's update; when           *)
(* patience >= 1 and the counter was below patience when train() was      *)
(* called, as on a trainer just constructed, that is exactly when the     *)
(* counter equals patience.                                               *)
C2_StopsIffReached ==
    [][(pc = "logged" /\ IntPatience) =>
        /\ (pc' = "done") <=> (early_stopping_counter' >= patience.int)
        /\ (patience.int >= 1 /\ run.counter < patience.int) =>
              ((pc' = "done") <=> (early_stopping_counter' = patience.int))]_vars

C2_Witness ==
    /\ StoppedEarly
    /\ IntPatience
    /\ patience.int = 1
    /\ early_stopping_counter = 1
    /\ run.counter < 1
    /\ Len(RunCheckpoints) >= 1

(* C3: in a run of train() a checkpoint is written once for each epoch    *)
(* that completes without triggering early stopping, never for the epoch  *)
(* that triggers it nor for one whose passes raise, and the epochs of     *)
(* successive writes increase strictly (here: the i-th write of the run   *)
(* is epoch i-1, in the file of that epoch, with that epoch's losses).    *)
C3_Checkpoints ==
    ((InTrain \/ Raised) /\ IntPatience) =>
        /\ \A i \in 1..Len(RunCheckpoints) :
              /\ RunCheckpoints[i].epoch = i - 1
              /\ RunCheckpoints[i].path = CheckpointPath(log_dir, i - 1)
              /\ RunCheckpoints[i].val_loss = RunLosses[i]
              /\ RunCheckpoints[i].train_loss = RunLog[i].train_loss
        /\ \A i, j \in 1..Len(RunCheckpoints) :
              i < j => RunCheckpoints[i].epoch < RunCheckpoints[j].epoch
        /\ pc = "save" => returned = "False"
        /\ Len(RunCheckpoints) =
              CASE pc = "loop" -> it
                [] pc = "done" /\ ~StoppedEarly -> it
                [] OTHER -> it - 1

C3_Witness ==
    /\ StoppedEarly
    /\ IntPatience
    /\ run.ckpt >= 1
    /\ Len(RunLosses) = 2
    /\ Len(RunCheckpoints) = 1
    /\ checkpoints[1].path = RunCheckpoints[1].path

(* C4: best_val_loss never rises, changes only in an early_stopping call, *)
(* and whenever it changes the counter is 0 in the resulting state.       *)
C4_BestOnlyDecreases ==
    [][TrainerBuilt =>
        /\ best_val_loss' <= best_val_loss
        /\ best_val_loss' # best_val_loss =>
              /\ pc \in {"idle", "called", "done", "error", "logged"}
              /\ pc' \in {"called", "done", "save", "error"}
              /\ Len(calls') = Len(calls) + 1
              /\ best_val_loss' = calls'[Len(calls')]
              /\ early_stopping_counter' = 0]_vars

C4_Witness ==
    /\ Len(calls) = 3
    /\ calls[2] < calls[1]
    /\ calls[3] < calls[2]
    /\ best_val_loss = calls[3]
    /\ early_stopping_counter = 0

(* run() as the source stands ends by raising before it constructs a      *)
(* trainer: it builds none, makes no log directory, writes no checkpoint  *)
(* and logs no epoch                                                      *)
RunBuildsNoTrainer ==
    pipeline # NoPipeline =>
        /\ built_by = "nobody"
        /\ made_dirs = {}
        /\ checkpoints = <<>>
        /\ wandb_log = <<>>
        /\ pc \in {"pipeline", "configured", "error"}

(* C6: in a run of train() there is one log call, with keys epoch,        *)
(* train_loss and val_loss, for every epoch whose passes finish, the      *)
(* stopping epoch included, and none for an epoch whose passes raise; the *)
(* logged epochs are 0, 1, 2, ... in order; the log call of an epoch      *)
(* comes before that epoch's early-stopping decision and checkpoint.      *)
C6_LogPerEpoch ==
    (pc \in {"loop", "body", "validated", "logged", "save", "done", "error"}) =>
        /\ \A i \in 1..Len(RunLog) :
              /\ DOMAIN RunLog[i] = {"epoch", "train_loss", "val_loss"}
              /\ RunLog[i].epoch = i - 1
              /\ i <= Len(RunLosses) => RunLog[i].val_loss = RunLosses[i]
        /\ Len(RunLog) =
              IF pc \in {"body", "validated"} \/ Raised THEN it - 1 ELSE it
        /\ Len(RunLosses) <= Len(RunLog)
        /\ Len(RunCheckpoints) <= Len(RunLosses)
        /\ pc = "logged" =>
              /\ Len(RunLog) = epoch + 1
              /\ RunLog[epoch + 1].val_loss = avg_val_loss
              /\ RunLog[epoch + 1].train_loss = avg_loss
              /\ Len(RunLosses) = epoch
              /\ Len(RunCheckpoints) = epoch
        /\ StoppedEarly => Len(RunLog) = Len(RunCheckpoints) + 1

C6_Witness ==
    /\ StoppedEarly
    /\ run.log >= 1
    /\ Len(RunLog) = 2
    /\ RunLog[2].epoch = 1
    /\ RunLog[1].train_loss # RunLog[2].train_loss
    /\ RunLog[2].train_loss # RunLog[2].val_loss
    /\ Len(RunCheckpoints) = 1

(* C7, the two directions shared by the claim and its amendment: train()  *)
(* stops at the end of epoch e if and only if e is the first epoch whose  *)
(* p most recent epochs each failed to lower the minimum strictly.        *)
StopsAtFirstWindow ==
    /\ StoppedEarly => FirstWindow(RunLosses, epoch, patience.int)
    /\ \A e \in Decided :
          FirstWindow(RunLosses, e, patience.int) =>
              (StoppedEarly /\ epoch = e /\ Len(RunLosses) = e + 1)

(* the epoch at which train() stopped early did not improve strictly *)
StopEpochNotImproved == StoppedEarly => ~StrictlyLower(RunLosses, epoch + 1)

(* C7 as stated: for any patience p, train() stops at the first epoch     *)
(* whose p most recent epochs did not improve, and an epoch that is a     *)
(* strict improvement never causes the halt.                              *)
C7_HaltsAfterPatienceEpochs ==
    (InTrain /\ IntPatience) =>
        (StopsAtFirstWindow /\ StopEpochNotImproved)

(* C7 amended: the same for a train() called on a freshly constructed     *)
(* trainer, with the last part only for patience >= 1 (with patience <= 0 *)
(* the window is empty and epoch 0 halts the run even when its loss is an *)
(* improvement).                                                          *)
C7_HaltsAfterPatienceEpochsFromOne ==
    (InTrain /\ IntPatience /\ FreshRun) =>
        /\ StopsAtFirstWindow
        /\ patience.int >= 1 => StopEpochNotImproved
        /\ (patience.int <= 0 /\ Len(RunLosses) >= 1) =>
              (StoppedEarly /\ epoch = 0)

C7_Witness ==
    /\ StoppedEarly
    /\ IntPatience
    /\ FreshRun
    /\ patience.int = 1
    /\ epoch = 1
    /\ StrictlyLower(calls, 1)
    /\ ~StrictlyLower(calls, 2)

(* C8: on a freshly constructed trainer, after any sequence of            *)
(* early_stopping calls, best_val_loss is the minimum of the losses       *)
(* passed (infinity if none) and the counter is the number of calls since *)
(* the last one that strictly lowered best_val_loss; it is not clamped at *)
(* patience.                                                              *)
C8_BestIsMinCounterIsRun ==
    TrainerBuilt =>
        /\ best_val_loss = PrefixMin(calls, Len(calls))
        /\ early_stopping_counter = Len(calls) - LastLowering(calls)

C8_Witness ==
    /\ pc = "called"
    /\ IntPatience
    /\ patience.int = 1
    /\ Len(calls) = 3
    /\ LastLowering(calls) = 1
    /\ early_stopping_counter = 2
    /\ returned = "True"

(* the epochs of the current train() whose validation loss equals         *)
(* best_val_loss                                                          *)
AttainedAt == {e \in Decided : RunLosses[e + 1] = best_val_loss}

(* the first of them, -1 if there is none *)
FirstAttained ==
    IF AttainedAt = {} THEN 0 - 1
    ELSE CHOOSE e \in AttainedAt : \A d \in AttainedAt : e <= d

(* with patience <= 0 a run of at least one epoch stops after epoch 0 and *)
(* writes no checkpoint                                                   *)
NoPatienceNoCheckpoint ==
    (pc = "done" /\ IntPatience /\ patience.int <= 0 /\ num_epochs >= 1) =>
        /\ returned = "True"
        /\ Len(RunLosses) = 1
        /\ Len(RunLog) = 1
        /\ RunCheckpoints = <<>>

(* C9 as stated: when train() returns with patience >= 1 after at least   *)
(* one epoch, the epoch that first attained the final best_val_loss has a *)
(* checkpoint; with patience <= 0 train() stops after one epoch and       *)
(* writes none.                                                           *)
C9_BestEpochCheckpointed ==
    /\ (pc = "done" /\ IntPatience /\ patience.int >= 1
            /\ Len(RunLosses) >= 1 /\ AttainedAt # {}) =>
          FirstAttained \in RunCheckpointEpochs
    /\ NoPatienceNoCheckpoint

(* C9 amended: the same for a train() called on a freshly constructed     *)
(* trainer whose final best_val_loss is finite, that is, some epoch's     *)
(* validation loss was below the initial infinity.                        *)
C9_FiniteBestEpochCheckpointed ==
    /\ (pc = "done" /\ IntPatience /\ patience.int >= 1
            /\ Len(RunLosses) >= 1 /\ FreshRun /\ best_val_loss < Inf) =>
          /\ AttainedAt # {}
          /\ FirstAttained \in RunCheckpointEpochs
          /\ \E i \in 1..Len(RunCheckpoints) :
                /\ RunCheckpoints[i].epoch = FirstAttained
                /\ RunCheckpoints[i].val_loss = best_val_loss
    /\ NoPatienceNoCheckpoint

C9_Witness ==
    /\ pc = "done"
    /\ IntPatience
    /\ FreshRun
    /\ patience.int = 1
    /\ Len(RunLosses) = 2
    /\ FirstAttained = 1
    /\ best_val_loss < Inf

(* the steps train() has left at most: five for each epoch not yet begun, *)
(* and those of the epoch under way                                       *)
StepsLeft ==
    CASE pc = "loop" -> 5 * (num_epochs - it) + 1
      [] pc = "body" -> 5 * (num_epochs - it) + 5
      [] pc = "validated" -> 5 * (num_epochs - it) + 4
      [] pc = "logged" -> 5 * (num_epochs - it) + 3
      [] pc = "save" -> 5 * (num_epochs - it) + 2
      [] OTHER -> 0

(* the parts of C10 that hold of every train(): at most num_epochs epochs *)
(* run; train() can always take its next step until it has returned or    *)
(* raised, and the steps it has left are a natural number; on return the  *)
(* checkpointed epochs are 0..k-1, and when an epoch's passes raise they  *)
(* are the epochs before it                                               *)
C10_EpochsBounded ==
    /\ it <= num_epochs
    /\ Len(RunLog) <= num_epochs
    /\ Len(RunLosses) <= num_epochs
    /\ StepsLeft >= 0
    /\ pc \notin {"done", "error"} => ENABLED TrainNext
    /\ pc = "done" =>
          RunCheckpointEpochs = 0..((IF StoppedEarly THEN it - 1 ELSE it) - 1)
    /\ Raised => RunCheckpointEpochs = 0..(it - 2)

(* every step of train() leaves it fewer steps: train() terminates *)
C10_StepsDecrease ==
    (InTrain /\ IntPatience /\ pc # "done") => StepsLeft' < StepsLeft

(* C10 as stated: train() runs at most num_epochs epochs and terminates;  *)
(* when it has, the checkpointed epochs are 0..k-1, k the number of       *)
(* epochs run, less one if the run stopped early; with patience >= 1 the  *)
(* counter never exceeds patience during train().                         *)
C10_TerminatesBounded ==
    /\ [](((InTrain \/ Raised) /\ IntPatience) =>
            /\ C10_EpochsBounded
            /\ patience.int >= 1 => early_stopping_counter <= patience.int)
    /\ [][C10_StepsDecrease]_vars

(* C10 amended: the same, the bound on the counter holding when the       *)
(* counter was below patience when train() was called, as on a trainer    *)
(* just constructed.                                                      *)
C10_TerminatesBoundedFromBelow ==
    /\ [](((InTrain \/ Raised) /\ IntPatience) =>
            /\ C10_EpochsBounded
            /\ (patience.int >= 1 /\ run.counter < patience.int) =>
                  early_stopping_counter <= patience.int)
    /\ [][C10_StepsDecrease]_vars

C10_Witness ==
    /\ StoppedEarly
    /\ IntPatience
    /\ patience.int = 2
    /\ run.calls >= 1
    /\ run.counter = 1
    /\ early_stopping_counter = 2
    /\ it = 1
    /\ num_epochs = 2
    /\ RunCheckpointEpochs = {}

====
